---- MODULE Spec2Model ----
(***************************************************************************)
(* State-machine model of the three UI components of the repository:       *)
(*   UserProfileDesktop  (src/ui/snippets/user/profile/UserProfileDesktop.tsx) *)
(*   ColumnsButton       (src/ui/advancedFilter/ColumnsButton.tsx:1-64)    *)
(*   AddressDetails      (src/ui/advancedFilter/ColumnsButton.tsx:65-208)  *)
(* Each component has its own specification (SpecProfile, SpecColumns,     *)
(* SpecAddress, SpecSummary); the variables of the other components are    *)
(* held at their initial values.                                           *)
(***************************************************************************)
EXTENDS Integers, Sequences, FiniteSets, TLC

VARIABLES
    \* ---- UserProfileDesktop
    profileData,      \* profileQuery.data is truthy
    pathname,         \* router.pathname
    profileMenuOpen,  \* profileMenu.isOpen
    authModalOpen,    \* authModal.isOpen
    walletPending,    \* signInWithWallet.isPending
    clicks,           \* number of clicks on the trigger button so far
    calls,            \* per effect, how often it has been called so far
    lastClick,        \* log of the most recent click: <<>> or <<[data, path, effects]>>
    \* ---- ColumnsButton
    columns,          \* the columns prop: the caller's visibility map
    isOpen,           \* useDisclosure().isOpen of the popover
    checked,          \* the DOM state of each mounted (uncontrolled) checkbox
    reported,         \* <<>> or <<the map passed to the latest onChange call>>
    event,            \* <<>> or <<the latest change event and the props it saw>>
    \* ---- AddressDetails: the queries
    routerId,         \* router.query.id: <<>> (absent) or <<id>>
    addressQuery,     \* the addressQuery prop (a query result managed by the caller)
    countersCache,    \* per id, the cached query [addressCounters, id]
    tokenBalancesCache, \* per id, the cached query [addressTokenBalances, id]
    lastFetchStart,   \* <<>> or <<addressQuery as it was when a dependent fetch last started>>
    \* ---- AddressDetails: the summary view
    validations_count, \* countersQuery.data.validations_count: <<>> (absent) or <<string>>
    explorersConfig,  \* appConfig.network.explorers
    summaryId,        \* router.query.id while the summary is rendered
    rendered          \* <<>> or <<the summary view rendered last>>

profileVars ==
    <<profileData, pathname, profileMenuOpen, authModalOpen, walletPending,
      clicks, calls, lastClick>>

columnsVars == <<columns, isOpen, checked, reported, event>>

addressVars == <<routerId, addressQuery, countersCache, tokenBalancesCache, lastFetchStart>>

summaryVars == <<validations_count, explorersConfig, summaryId, rendered>>

vars == <<profileVars, columnsVars, addressVars, summaryVars>>

\* What a step of one component leaves alone: the other components.
ProfileOnly == UNCHANGED <<columnsVars, addressVars, summaryVars>>
ColumnsOnly == UNCHANGED <<profileVars, addressVars, summaryVars>>
AddressOnly == UNCHANGED <<profileVars, columnsVars, summaryVars>>
SummaryOnly == UNCHANGED <<profileVars, columnsVars, addressVars>>


(***************************************************************************)
(* ColumnsButton                                                           *)
(***************************************************************************)

\* Bound on the number of columns of the table.
NumColumns == 2

\* ColumnsIds, and TABLE_COLUMNS: the columns that get a checkbox.
ColumnsIds == 1..NumColumns
TABLE_COLUMNS == ColumnsIds
VisibilityMaps == [ColumnsIds -> BOOLEAN]

\* No checkbox is mounted while the lazy popover is closed.
Unmounted == [c \in ColumnsIds |-> FALSE]

\* A handler that negates the map's own entry instead of reading the checkbox.
NewColsNegateProp(cols, id, targetChecked) ==
    [cols EXCEPT ![id] = ~cols[id]]

\* onCheckboxClick, lines 26-28: a copy of columns with
\* newCols[event.target.id] = event.target.checked.
NewCols(cols, id, targetChecked) ==
    [cols EXCEPT ![id] = targetChecked]

\* The state of the closed, freshly mounted picker (used by every specification).
ColumnsIdle ==
    /\ columns = [c \in ColumnsIds |-> TRUE]
    /\ isOpen = FALSE
    /\ checked = Unmounted
    /\ reported = <<>>
    /\ event = <<>>

ColumnsStart ==
    /\ columns \in VisibilityMaps
    /\ isOpen = FALSE
    /\ checked = Unmounted
    /\ reported = <<>>
    /\ event = <<>>

\* Button onClick = onToggle. The popover is lazy: opening mounts the
\* checkboxes with defaultChecked = columns[col.id]; closing unmounts them.
OnToggle ==
    /\ isOpen' = ~isOpen
    /\ checked' = IF isOpen THEN Unmounted ELSE [c \in ColumnsIds |-> columns[c]]
    /\ UNCHANGED <<columns, reported, event>>
    /\ ColumnsOnly

\* Popover onClose (outside click, Esc).
OnClose ==
    /\ isOpen
    /\ isOpen' = FALSE
    /\ checked' = Unmounted
    /\ UNCHANGED <<columns, reported, event>>
    /\ ColumnsOnly

\* The user clicks the checkbox of column id: the browser flips the
\* checkbox, then onCheckboxClick runs and calls onChange(newCols).
\* The columns prop object itself is not written.
OnCheckboxClick(id) ==
    /\ isOpen
    /\ LET targetChecked == ~checked[id] IN
        /\ checked' = [checked EXCEPT ![id] = targetChecked]
        /\ reported' = <<NewCols(columns, id, targetChecked)>>
        /\ event' = <<[id |-> id, checked |-> targetChecked, columns |-> columns]>>
    /\ UNCHANGED <<columns, isOpen>>
    /\ ColumnsOnly

\* The caller stores the reported map and passes it back as the columns prop.
\* Mounted checkboxes keep their own state: defaultChecked is read on mount only.
CallerFeedsBack ==
    /\ reported # <<>>
    /\ columns # reported[1]
    /\ columns' = reported[1]
    /\ UNCHANGED <<isOpen, checked, reported, event>>
    /\ ColumnsOnly

\* The caller passes another map of its own (a reset, a stored preset).
CallerReplacesColumns ==
    /\ \E m \in VisibilityMaps \ {columns} : columns' = m
    /\ UNCHANGED <<isOpen, checked, reported, event>>
    /\ ColumnsOnly

NextColumns ==
    \/ OnToggle
    \/ OnClose
    \/ \E id \in TABLE_COLUMNS : OnCheckboxClick(id)
    \/ CallerFeedsBack
    \/ CallerReplacesColumns


(***************************************************************************)
(* UserProfileDesktop                                                      *)
(***************************************************************************)

\* Bound on the number of clicks the model follows.
MaxClicks == 3

\* Route patterns the page can be on; AppRoute is the literal of line 34.
AppRoute == "/apps/[id]"
Routes == {"/", "/apps", AppRoute, "/address/[hash]"}

\* The three effects the click handler can call.
MenuOnOpen == "profileMenu.onOpen"
WalletStart == "signInWithWallet.start"
AuthOnOpen == "authModal.onOpen"
Effects == {MenuOnOpen, WalletStart, AuthOnOpen}

\* A handler that lost its early returns: every branch falls through.
HandlerNoReturn(data, path) ==
    (IF data THEN <<MenuOnOpen>> ELSE <<>>)
        \o (IF path = AppRoute THEN <<WalletStart>> ELSE <<>>)
        \o <<AuthOnOpen>>

\* A handler whose first test is inverted.
HandlerInvertedData(data, path) ==
    IF ~data THEN <<MenuOnOpen>>
    ELSE IF path = AppRoute THEN <<WalletStart>>
    ELSE <<AuthOnOpen>>

\* A handler that compares with the wrong route.
HandlerWrongRoute(data, path) ==
    IF data THEN <<MenuOnOpen>>
    ELSE IF path = "/apps" THEN <<WalletStart>>
    ELSE <<AuthOnOpen>>

\* handleProfileButtonClick: the effects it calls, in order.
HandleProfileButtonClick(data, path) ==
    IF data THEN <<MenuOnOpen>>
    ELSE IF path = AppRoute THEN <<WalletStart>>
    ELSE <<AuthOnOpen>>

Called(effs, e) == \E i \in 1..Len(effs) : effs[i] = e
Count(effs, e) == Cardinality({i \in 1..Len(effs) : effs[i] = e})

ProfileStart ==
    /\ profileData \in BOOLEAN
    /\ pathname \in Routes
    /\ profileMenuOpen = FALSE
    /\ authModalOpen = FALSE
    /\ walletPending = FALSE
    /\ clicks = 0
    /\ calls = [e \in Effects |-> 0]
    /\ lastClick = <<>>

\* The menu before any click (used by every specification).
ProfileIdle ==
    /\ profileData = FALSE
    /\ pathname = "/"
    /\ profileMenuOpen = FALSE
    /\ authModalOpen = FALSE
    /\ walletPending = FALSE
    /\ clicks = 0
    /\ calls = [e \in Effects |-> 0]
    /\ lastClick = <<>>

\* A click on UserProfileButton: runs handleProfileButtonClick and applies
\* every effect it calls (useDisclosure.onOpen sets isOpen, start sets isPending).
ProfileButtonClick ==
    /\ clicks < MaxClicks
    /\ LET effs == HandleProfileButtonClick(profileData, pathname) IN
        /\ profileMenuOpen' = (profileMenuOpen \/ Called(effs, MenuOnOpen))
        /\ authModalOpen' = (authModalOpen \/ Called(effs, AuthOnOpen))
        /\ walletPending' = (walletPending \/ Called(effs, WalletStart))
        /\ calls' = [e \in Effects |-> calls[e] + Count(effs, e)]
        /\ lastClick' = <<[data |-> profileData, path |-> pathname, effects |-> effs]>>
    /\ clicks' = clicks + 1
    /\ UNCHANGED <<profileData, pathname>>
    /\ ProfileOnly

\* Popover onClose / UserProfileContent onClose.
ProfileMenuClose ==
    /\ profileMenuOpen
    /\ profileMenuOpen' = FALSE
    /\ UNCHANGED <<profileData, pathname, authModalOpen, walletPending, clicks, calls, lastClick>>
    /\ ProfileOnly

\* AuthModal onClose.
AuthModalClose ==
    /\ authModalOpen
    /\ authModalOpen' = FALSE
    /\ UNCHANGED <<profileData, pathname, profileMenuOpen, walletPending, clicks, calls, lastClick>>
    /\ ProfileOnly

\* The router moves to another route.
Navigate ==
    /\ \E p \in Routes \ {pathname} : pathname' = p
    /\ UNCHANGED <<profileData, profileMenuOpen, authModalOpen, walletPending, clicks, calls, lastClick>>
    /\ ProfileOnly

\* useFetchProfileInfo: the cached profile appears (sign-in) or disappears (sign-out).
ProfileQueryChange ==
    /\ profileData' = ~profileData
    /\ UNCHANGED <<pathname, profileMenuOpen, authModalOpen, walletPending, clicks, calls, lastClick>>
    /\ ProfileOnly

\* useSignInWithWallet: the started flow settles.
WalletFlowSettles ==
    /\ walletPending
    /\ walletPending' = FALSE
    /\ UNCHANGED <<profileData, pathname, profileMenuOpen, authModalOpen, clicks, calls, lastClick>>
    /\ ProfileOnly

NextProfile ==
    \/ ProfileButtonClick
    \/ ProfileMenuClose
    \/ AuthModalClose
    \/ Navigate
    \/ ProfileQueryChange
    \/ WalletFlowSettles


(***************************************************************************)
(* Properties of UserProfileDesktop                                        *)
(***************************************************************************)

IsClick == clicks' = clicks + 1

\* C2: every click on the trigger performs exactly one of the three effects
\* profileMenu.onOpen, signInWithWallet.start, authModal.onOpen: the most
\* recent click called exactly one, and over any run the calls add up to
\* the number of clicks.
C2_ExactlyOneEffectPerClick ==
    /\ calls[MenuOnOpen] + calls[WalletStart] + calls[AuthOnOpen] = clicks
    /\ lastClick # <<>> =>
        /\ Len(lastClick[1].effects) = 1
        /\ lastClick[1].effects[1] \in Effects

\* Each of the three effects has been the single effect of some click.
C2_Witness == \A e \in Effects : calls[e] >= 1

\* C3: with profile data present a click only opens the menu popover: it
\* never calls signInWithWallet.start and never opens the auth dialog,
\* whatever the route.
C3_ProfilePresentOnlyOpensMenu ==
    [][(IsClick /\ profileData) =>
        /\ lastClick'[1].effects = <<MenuOnOpen>>
        /\ profileMenuOpen'
        /\ calls'[WalletStart] = calls[WalletStart]
        /\ calls'[AuthOnOpen] = calls[AuthOnOpen]
        /\ walletPending' = walletPending
        /\ authModalOpen' = authModalOpen]_vars

\* A click with profile data present happened on the app-detail route, where
\* the wallet branch would otherwise be taken.
C3_Witness ==
    /\ lastClick # <<>>
    /\ lastClick[1].data
    /\ lastClick[1].path = AppRoute
    /\ profileMenuOpen
    /\ calls[WalletStart] = 0
    /\ calls[AuthOnOpen] = 0

\* C4: with profile data absent, a click on the app-detail route starts the
\* wallet sign-in flow and leaves authModal.isOpen unchanged; on any other
\* route it opens the auth dialog and does not start the wallet flow.
C4_ProfileAbsentRouteDecides ==
    [][(IsClick /\ ~profileData) =>
        IF pathname = AppRoute
        THEN /\ calls'[WalletStart] = calls[WalletStart] + 1
             /\ walletPending'
             /\ calls'[AuthOnOpen] = calls[AuthOnOpen]
             /\ authModalOpen' = authModalOpen
        ELSE /\ calls'[AuthOnOpen] = calls[AuthOnOpen] + 1
             /\ authModalOpen'
             /\ calls'[WalletStart] = calls[WalletStart]
             /\ walletPending' = walletPending]_vars

\* Both cases happened: an earlier click opened the auth dialog (since
\* closed), and the latest click, on the app-detail route without profile
\* data, started the wallet flow with the dialog still closed.
C4_Witness ==
    /\ lastClick # <<>>
    /\ ~lastClick[1].data
    /\ lastClick[1].path = AppRoute
    /\ lastClick[1].effects = <<WalletStart>>
    /\ calls[AuthOnOpen] >= 1
    /\ walletPending
    /\ ~authModalOpen

(***************************************************************************)
(* AddressDetails: the three queries and the view they select              *)
(***************************************************************************)

\* Address ids the route can carry.
Ids == {"0xA", "0xB"}
RouterIds == {<<>>} \cup {<<i>> : i \in Ids}

\* A query of @tanstack/react-query as used with useQuery(key, fn, options):
\* status is loading | error | success, fetchStatus is idle | fetching.
\* A query without data that is not fetching (a disabled one) has status loading.
FreshQuery == [status |-> "loading", fetchStatus |-> "idle", hasData |-> FALSE]

\* A fetch starts: status turns to loading only if there is no data yet.
OnFetch(q) ==
    [q EXCEPT !.fetchStatus = "fetching",
              !.status = IF q.hasData THEN q.status ELSE "loading"]

\* The fetch resolves.
OnSuccess(q) == [status |-> "success", fetchStatus |-> "idle", hasData |-> TRUE]

\* The fetch rejects: data of an earlier success is kept.
OnError(q) == [status |-> "error", fetchStatus |-> "idle", hasData |-> q.hasData]

\* An isLoading that is true only while a first fetch is in flight
\* (isInitialLoading), so that a disabled query is not loading.
IsLoadingOnlyWhileFetching(q) == q.status = "loading" /\ q.fetchStatus = "fetching"

\* query.isLoading and query.isError as read on lines 118 and 122.
IsLoading(q) == q.status = "loading"
IsError(q) == q.status = "error"

\* Boolean(addressQuery.data).
HasAddressData == addressQuery.hasData

\* A gate that tests the route parameter only.
EnabledByRouteOnly == routerId # <<>>

\* enabled of countersQuery (line 106) and of tokenBalancesQuery (line 114).
CountersEnabled == routerId # <<>> /\ HasAddressData
TokenBalancesEnabled == routerId # <<>> /\ HasAddressData

\* The query each useQuery call observes: the one keyed by router.query.id.
\* The key with an absent id is never enabled, so never leaves its first state.
CountersQuery == IF routerId = <<>> THEN FreshQuery ELSE countersCache[routerId[1]]
TokenBalancesQuery == IF routerId = <<>> THEN FreshQuery ELSE tokenBalancesCache[routerId[1]]

\* A view that tests for errors before it tests for loading.
ViewErrorFirst ==
    IF IsError(CountersQuery) \/ IsError(addressQuery) \/ IsError(TokenBalancesQuery)
    THEN "alert"
    ELSE IF IsLoading(CountersQuery) \/ IsLoading(addressQuery) \/ IsLoading(TokenBalancesQuery)
    THEN "skeleton"
    ELSE "summary"

\* What AddressDetails returns, lines 118-129: AddressDetailsSkeleton,
\* DataFetchAlert or the summary.
AddressDetailsView ==
    IF IsLoading(CountersQuery) \/ IsLoading(addressQuery) \/ IsLoading(TokenBalancesQuery)
    THEN "skeleton"
    ELSE IF IsError(CountersQuery) \/ IsError(addressQuery) \/ IsError(TokenBalancesQuery)
    THEN "alert"
    ELSE "summary"

AddressStart ==
    /\ routerId \in RouterIds
    /\ addressQuery = FreshQuery
    /\ countersCache = [i \in Ids |-> FreshQuery]
    /\ tokenBalancesCache = [i \in Ids |-> FreshQuery]
    /\ lastFetchStart = <<>>

\* The panel before anything was fetched (used by every specification).
AddressIdle ==
    /\ routerId = <<>>
    /\ addressQuery = FreshQuery
    /\ countersCache = [i \in Ids |-> FreshQuery]
    /\ tokenBalancesCache = [i \in Ids |-> FreshQuery]
    /\ lastFetchStart = <<>>

\* The route parameter id changes (or disappears): both useQuery calls
\* observe the queries of the new key.
RouteChange ==
    /\ \E r \in RouterIds \ {routerId} : routerId' = r
    /\ UNCHANGED <<addressQuery, countersCache, tokenBalancesCache, lastFetchStart>>
    /\ AddressOnly

\* The caller's address query: fetch, refetch, settle, and start over on a new key.
AddressFetchStarts ==
    /\ addressQuery.fetchStatus = "idle"
    /\ addressQuery' = OnFetch(addressQuery)
    /\ UNCHANGED <<routerId, countersCache, tokenBalancesCache, lastFetchStart>>
    /\ AddressOnly

AddressFetchSucceeds ==
    /\ addressQuery.fetchStatus = "fetching"
    /\ addressQuery' = OnSuccess(addressQuery)
    /\ UNCHANGED <<routerId, countersCache, tokenBalancesCache, lastFetchStart>>
    /\ AddressOnly

AddressFetchFails ==
    /\ addressQuery.fetchStatus = "fetching"
    /\ addressQuery' = OnError(addressQuery)
    /\ UNCHANGED <<routerId, countersCache, tokenBalancesCache, lastFetchStart>>
    /\ AddressOnly

AddressQueryResets ==
    /\ addressQuery # FreshQuery
    /\ addressQuery' = FreshQuery
    /\ UNCHANGED <<routerId, countersCache, tokenBalancesCache, lastFetchStart>>
    /\ AddressOnly

\* useQuery starts (or restarts) the counters fetch of the observed key.
CountersFetchStarts ==
    /\ CountersEnabled
    /\ CountersQuery.fetchStatus = "idle"
    /\ countersCache' = [countersCache EXCEPT ![routerId[1]] = OnFetch(@)]
    /\ lastFetchStart' = <<addressQuery>>
    /\ UNCHANGED <<routerId, addressQuery, tokenBalancesCache>>
    /\ AddressOnly

CountersFetchSucceeds ==
    /\ \E i \in Ids :
        /\ countersCache[i].fetchStatus = "fetching"
        /\ countersCache' = [countersCache EXCEPT ![i] = OnSuccess(@)]
    /\ UNCHANGED <<routerId, addressQuery, tokenBalancesCache, lastFetchStart>>
    /\ AddressOnly

CountersFetchFails ==
    /\ \E i \in Ids :
        /\ countersCache[i].fetchStatus = "fetching"
        /\ countersCache' = [countersCache EXCEPT ![i] = OnError(@)]
    /\ UNCHANGED <<routerId, addressQuery, tokenBalancesCache, lastFetchStart>>
    /\ AddressOnly

\* useQuery starts (or restarts) the token-balances fetch of the observed key.
TokenBalancesFetchStarts ==
    /\ TokenBalancesEnabled
    /\ TokenBalancesQuery.fetchStatus = "idle"
    /\ tokenBalancesCache' = [tokenBalancesCache EXCEPT ![routerId[1]] = OnFetch(@)]
    /\ lastFetchStart' = <<addressQuery>>
    /\ UNCHANGED <<routerId, addressQuery, countersCache>>
    /\ AddressOnly

TokenBalancesFetchSucceeds ==
    /\ \E i \in Ids :
        /\ tokenBalancesCache[i].fetchStatus = "fetching"
        /\ tokenBalancesCache' = [tokenBalancesCache EXCEPT ![i] = OnSuccess(@)]
    /\ UNCHANGED <<routerId, addressQuery, countersCache, lastFetchStart>>
    /\ AddressOnly

TokenBalancesFetchFails ==
    /\ \E i \in Ids :
        /\ tokenBalancesCache[i].fetchStatus = "fetching"
        /\ tokenBalancesCache' = [tokenBalancesCache EXCEPT ![i] = OnError(@)]
    /\ UNCHANGED <<routerId, addressQuery, countersCache, lastFetchStart>>
    /\ AddressOnly

NextAddress ==
    \/ RouteChange
    \/ AddressFetchStarts
    \/ AddressFetchSucceeds
    \/ AddressFetchFails
    \/ AddressQueryResets
    \/ CountersFetchStarts
    \/ CountersFetchSucceeds
    \/ CountersFetchFails
    \/ TokenBalancesFetchStarts
    \/ TokenBalancesFetchSucceeds
    \/ TokenBalancesFetchFails

(***************************************************************************)
(* AddressDetails: the summary view (lines 126-205)                        *)
(***************************************************************************)

\* Bound on the length of the validations_count strings tried.
MaxLen == 3
\* Bound on the number of configured explorers.
MaxExplorers == 2

\* Characters the validations_count strings are made of.
Alphabet == {"0", "5", "-", "a"}

RECURSIVE StringsOfLen(_)
StringsOfLen(n) ==
    IF n = 0 THEN {""}
    ELSE {s \o c : s \in StringsOfLen(n - 1), c \in Alphabet}

RECURSIVE StringsUpTo(_)
StringsUpTo(n) ==
    IF n = 0 THEN StringsOfLen(0) ELSE StringsOfLen(n) \cup StringsUpTo(n - 1)

\* A JavaScript number as far as the view tells numbers apart: NaN or an integer.
NaN == [isNaN |-> TRUE, value |-> 0]
Num(v) == [isNaN |-> FALSE, value |-> v]

DigitChars == {"0", "1", "2", "3", "4", "5", "6", "7", "8", "9"}
DigitValue(c) ==
    CASE c = "0" -> 0 [] c = "1" -> 1 [] c = "2" -> 2 [] c = "3" -> 3 [] c = "4" -> 4
      [] c = "5" -> 5 [] c = "6" -> 6 [] c = "7" -> 7 [] c = "8" -> 8 [] c = "9" -> 9

IsDigits(s) ==
    /\ Len(s) > 0
    /\ \A i \in 1..Len(s) : SubSeq(s, i, i) \in DigitChars

RECURSIVE DigitsValue(_)
DigitsValue(s) ==
    IF Len(s) = 0 THEN 0
    ELSE 10 * DigitsValue(SubSeq(s, 1, Len(s) - 1)) + DigitValue(SubSeq(s, Len(s), Len(s)))

\* Number(x) on line 127: undefined gives NaN, the empty string 0, an
\* optionally signed run of decimal digits its value, other text NaN.
Number(x) ==
    IF x = <<>> THEN NaN
    ELSE LET s == x[1] IN
        IF s = "" THEN Num(0)
        ELSE IF IsDigits(s) THEN Num(DigitsValue(s))
        ELSE IF Len(s) > 1 /\ SubSeq(s, 1, 1) = "-" /\ IsDigits(SubSeq(s, 2, Len(s)))
        THEN Num(0 - DigitsValue(SubSeq(s, 2, Len(s))))
        ELSE IF Len(s) > 1 /\ SubSeq(s, 1, 1) = "+" /\ IsDigits(SubSeq(s, 2, Len(s)))
        THEN Num(DigitsValue(SubSeq(s, 2, Len(s))))
        ELSE NaN

\* A guard that lets zero through.
BlocksValidatedShownFromZero(n) == ~n.isNaN /\ n.value >= 0

\* The guard of line 195: !Object.is(validationsCount, NaN) && validationsCount > 0.
BlocksValidatedShown(n) == ~n.isNaN /\ n.value > 0

\* An explorer of appConfig.network.explorers; a path is <<>> when not defined.
BaseUrl(i) == "https://explorer" \o ToString(i) \o ".io"
AddressPaths == {<<>>, <<"/address">>}
TxPaths == {<<>>, <<"/tx">>}
ExplorersOfLen(n) ==
    [1..n -> [address : AddressPaths, tx : TxPaths]]
ExplorerConfigs ==
    UNION {
        {[i \in 1..n |-> [baseUrl |-> BaseUrl(i), title |-> "Explorer " \o ToString(i), paths |-> ps[i]]]
            : ps \in ExplorersOfLen(n)}
        : n \in 0..MaxExplorers}

\* JavaScript's string of an optional string in a concatenation.
JSString(x) == IF x = <<>> THEN "undefined" ELSE x[1]

\* new URL(relative, base).toString() for a base that is a bare origin.
NewURL(relative, base) ==
    IF Len(relative) > 0 /\ SubSeq(relative, 1, 1) = "/"
    THEN base \o relative
    ELSE base \o "/" \o relative

\* Line 126: the explorers that define an address path.
Explorers(config) == SelectSeq(config, LAMBDA e : e.paths.address # <<>>)

\* Lines 148-151: the link rendered for one explorer.
ExplorerLink(explorer, id) ==
    [title |-> explorer.title,
     href |-> NewURL(JSString(explorer.paths.tx) \o "/" \o id, explorer.baseUrl)]

\* The parts of the summary the claims are about: the "Verify with other
\* explorers" links and the "Blocks validated" line.
SummaryView(vc, config, id) ==
    LET explorers == Explorers(config)
        validationsCount == Number(vc)
    IN [links |-> [i \in 1..Len(explorers) |-> ExplorerLink(explorers[i], id)],
        blocksValidated |->
            IF BlocksValidatedShown(validationsCount)
            THEN <<validationsCount.value>>
            ELSE <<>>]

SummaryStart ==
    /\ validations_count \in {<<>>} \cup {<<s>> : s \in StringsUpTo(MaxLen)}
    /\ explorersConfig \in ExplorerConfigs
    /\ summaryId \in Ids
    /\ rendered = <<>>

\* No summary on screen (used by every specification).
SummaryIdle ==
    /\ validations_count = <<>>
    /\ explorersConfig = <<>>
    /\ summaryId = "0xA"
    /\ rendered = <<>>

\* All three queries have succeeded: the summary is rendered.
RenderSummary ==
    /\ rendered = <<>>
    /\ rendered' = <<SummaryView(validations_count, explorersConfig, summaryId)>>
    /\ UNCHANGED <<validations_count, explorersConfig, summaryId>>
    /\ SummaryOnly

\* The route moves to another address whose queries are cached with the
\* same counters: the summary is rendered again.
SummaryRouteChange ==
    /\ rendered # <<>>
    /\ \E i \in Ids \ {summaryId} :
        /\ summaryId' = i
        /\ rendered' = <<SummaryView(validations_count, explorersConfig, i)>>
    /\ UNCHANGED <<validations_count, explorersConfig>>
    /\ SummaryOnly

NextSummary ==
    \/ RenderSummary
    \/ SummaryRouteChange

(***************************************************************************)
(* Properties of ColumnsButton                                             *)
(***************************************************************************)

\* A change event on the checkbox of column k: the mounted checkbox flips.
ChangeOn(k) == isOpen /\ isOpen' /\ checked'[k] # checked[k]

\* C1 as claimed: a checkbox change on k calls onChange with a map that
\* equals M (the columns prop) on every other key and holds the negation of
\* M[k] at k, also when the checkbox state and M[k] differ.
C1_ReportsNegationOfProp ==
    event # <<>> =>
        reported[1] = [event[1].columns EXCEPT ![event[1].id] = ~event[1].columns[event[1].id]]

\* C1 (amended): a checkbox change on k calls onChange with a new map that
\* equals M on every key other than k and holds the checkbox's new checked
\* state (event.target.checked) at k; that is the negation of M[k] whenever
\* the checkbox agreed with M[k] before the change; the columns prop M is
\* left unchanged by the call.
C1_ReportsCheckboxState ==
    [][\A k \in TABLE_COLUMNS : ChangeOn(k) =>
        /\ reported' # <<>>
        /\ \A j \in ColumnsIds \ {k} : reported'[1][j] = columns[j]
        /\ reported'[1][k] = checked'[k]
        /\ (checked[k] = columns[k] => reported'[1][k] = ~columns[k])
        /\ columns' = columns]_vars

\* A change happened while the checkbox and the map disagreed (the caller
\* had replaced the map or not fed a report back): the reported map holds
\* M[k] itself at k.
C1_Witness ==
    /\ event # <<>>
    /\ event[1].checked = event[1].columns[event[1].id]
    /\ reported[1] = event[1].columns

(***************************************************************************)
(* Properties of AddressDetails                                            *)
(***************************************************************************)

AnyLoading == IsLoading(CountersQuery) \/ IsLoading(addressQuery) \/ IsLoading(TokenBalancesQuery)
AnyError == IsError(CountersQuery) \/ IsError(addressQuery) \/ IsError(TokenBalancesQuery)

\* C5: if at least one of the three queries is loading, the panel renders
\* the skeleton, and so neither the summary nor the error notice, also when
\* another query is in the error state.
C5_LoadingShowsSkeleton ==
    AnyLoading =>
        /\ AddressDetailsView = "skeleton"
        /\ AddressDetailsView # "summary"
        /\ AddressDetailsView # "alert"

\* One query is loading while each of the other two is in error.
C5_Witness ==
    /\ IsLoading(TokenBalancesQuery)
    /\ TokenBalancesQuery.fetchStatus = "fetching"
    /\ IsError(CountersQuery)
    /\ IsError(addressQuery)
    /\ AddressDetailsView = "skeleton"

\* C6 as claimed: whenever one of the three queries is in the error state
\* the panel shows the fetch-failure notice; in particular when the
\* address-info query has failed and the two dependent queries stay disabled.
C6_ErrorShowsAlert == AnyError => AddressDetailsView = "alert"

\* C7: the summary is rendered only when all three queries have succeeded
\* and hold data, whatever the route parameter and the address query are.
C7_SummaryOnlyWhenAllSucceeded ==
    AddressDetailsView = "summary" =>
        /\ routerId # <<>>
        /\ \A q \in {addressQuery, CountersQuery, TokenBalancesQuery} :
            q.status = "success" /\ q.hasData

\* The summary is on screen while the other id's queries, fetched earlier,
\* are cached in error: the route had changed, and the disabled queries of
\* an absent id or of an address query without data never showed it.
C7_Witness ==
    /\ AddressDetailsView = "summary"
    /\ \E i \in Ids \ {routerId[1]} : IsError(countersCache[i])

\* A dependent fetch starts in this step.
FetchStarts ==
    \E i \in Ids :
        \/ countersCache[i].fetchStatus = "idle" /\ countersCache'[i].fetchStatus = "fetching"
        \/ tokenBalancesCache[i].fetchStatus = "idle" /\ tokenBalancesCache'[i].fetchStatus = "fetching"

\* C9 as claimed: a counters or token-balances fetch never starts while the
\* address-info query has not succeeded, its error state with data of an
\* earlier success included.
C9_FetchOnlyAfterSuccess ==
    lastFetchStart # <<>> => lastFetchStart[1].status = "success"

\* C9 (amended): the counters fetch and the token-balances fetch are never
\* started in a state where the route parameter id is absent or the
\* address-info query holds no data, and both are enabled by the same
\* condition; an address-info query in error that still holds data of an
\* earlier success leaves both enabled.
C9_FetchOnlyWithIdAndData ==
    [][/\ CountersEnabled <=> TokenBalancesEnabled
       /\ FetchStarts => (routerId # <<>> /\ addressQuery.hasData)
       /\ (routerId # <<>> /\ IsError(addressQuery) /\ addressQuery.hasData)
            => (CountersEnabled /\ TokenBalancesEnabled)]_vars

\* A dependent fetch started while the address-info query was in error
\* holding data of an earlier success.
C9_Witness ==
    /\ lastFetchStart # <<>>
    /\ lastFetchStart[1].status = "error"
    /\ lastFetchStart[1].hasData

(***************************************************************************)
(* Properties of the summary view                                          *)
(***************************************************************************)

\* C8 as claimed: the "Blocks validated" line is rendered if and only if
\* Number(validations_count) is a non-NaN, non-zero number, negative numbers
\* included.
C8_ShownIffNonZero ==
    rendered # <<>> =>
        LET n == Number(validations_count) IN
        rendered[1].blocksValidated = IF ~n.isNaN /\ n.value # 0 THEN <<n.value>> ELSE <<>>

\* C8 (amended): the "Blocks validated" line is rendered if and only if
\* Number(validations_count) is a non-NaN number greater than zero, and then
\* shows the parsed value: it is omitted for "0", for values that parse to
\* NaN and for negative values, and rendered for "5".
C8_ShownIffPositive ==
    rendered # <<>> =>
        LET n == Number(validations_count) IN
        /\ rendered[1].blocksValidated = IF ~n.isNaN /\ n.value > 0 THEN <<n.value>> ELSE <<>>
        /\ validations_count = <<"0">> => rendered[1].blocksValidated = <<>>
        /\ validations_count = <<"5">> => rendered[1].blocksValidated = <<5>>
        /\ validations_count = <<"a">> => rendered[1].blocksValidated = <<>>
        /\ validations_count = <<"-5">> => rendered[1].blocksValidated = <<>>
        /\ validations_count = <<>> => rendered[1].blocksValidated = <<>>

\* The summary was rendered for a negative count, and the line is omitted.
C8_Witness ==
    /\ rendered # <<>>
    /\ validations_count = <<"-5">>
    /\ rendered[1].blocksValidated = <<>>

\* The links C10 asks for: one per explorer that defines an address path,
\* built from that address path and the id on the explorer's base URL.
ExpectedLinks ==
    LET withAddress == SelectSeq(explorersConfig, LAMBDA e : e.paths.address # <<>>)
    IN [i \in 1..Len(withAddress) |->
            [title |-> withAddress[i].title,
             href |-> withAddress[i].baseUrl \o withAddress[i].paths.address[1] \o "/" \o summaryId]]

\* C10: a "Verify with other explorers" link is rendered for an explorer if
\* and only if it defines an address path, and its URL is that explorer's
\* address path joined with the route's address id on the explorer's base
\* URL, never another entity's path and never an undefined path.
C10_LinksUseAddressPath ==
    rendered # <<>> => rendered[1].links = ExpectedLinks

(***************************************************************************)
(* Specifications: one per component                                       *)
(***************************************************************************)

InitProfile == ProfileStart /\ ColumnsIdle /\ AddressIdle /\ SummaryIdle
SpecProfile == InitProfile /\ [][NextProfile]_vars

InitColumns == ColumnsStart /\ ProfileIdle /\ AddressIdle /\ SummaryIdle
SpecColumns == InitColumns /\ [][NextColumns]_vars

InitAddress == AddressStart /\ ProfileIdle /\ ColumnsIdle /\ SummaryIdle
SpecAddress == InitAddress /\ [][NextAddress]_vars

InitSummary == SummaryStart /\ ProfileIdle /\ ColumnsIdle /\ AddressIdle
SpecSummary == InitSummary /\ [][NextSummary]_vars

====
